---- MODULE Spec2Model ----
(***************************************************************************)
(* A model of package avr (src/avr/avr.go): one Amp handle, its control    *)
(* loop goroutine, the connect goroutines started by startConnect, the     *)
(* reader goroutine of each conn, and a bounded number of goroutines       *)
(* calling Ping, SendCommand and Close.                                    *)
(*                                                                         *)
(* Every channel of the program is unbuffered, so a send and its receive   *)
(* are one joint step of the two goroutines.  A critical section of mu     *)
(* that cannot block is one step guarded by mu = "free"; a critical        *)
(* section that sends on a channel keeps mu across steps (mu names its     *)
(* holder).                                                                *)
(***************************************************************************)
EXTENDS Integers, Sequences, FiniteSets, TLC

\* ---------------------------------------------------------------- bounds
NumCallers == 2
MaxCalls == 2
MaxDials == 2

Callers == 1..NumCallers
Attempts == 1..MaxDials

\* ------------------------------------------------------- program constants
unconnected == "unconnected"
connecting == "connecting"
connected == "connected"

pingCmd == "pingCmd"
rawCmd == "rawCmd"

CR == "\\r"

\* Error values: nil, the error of the k-th net.Dial, errors.New("not connected").
Nil == [kind |-> "nil", n |-> 0]
DialErr(k) == [kind |-> "dial error", n |-> k]
NotConnected == [kind |-> "not connected", n |-> 0]
NoResult == [kind |-> "none", n |-> 0]

\* The payloads callers pass to SendCommand.
RawCmds == { <<"P">>, <<"Z", CR>> }

NoReq == [c |-> 0, cmd |-> "none", raw |-> <<>>]

VARIABLES
  \* Amp, guarded by mu
  mu, closed, state, stateListeners, conn, err,
  \* Amp.reqc: how many times close(a.reqc) ran
  reqcCloses,
  \* New and the loop goroutine
  newPC, loopPC, req, lconn, lerr,
  \* calling goroutines
  pc, op, raw, res,
  \* connect goroutines, one per net.Dial
  cpc, cres,
  \* conns: reader goroutine, net.Conn, bufio.Writer, bytes on the stream
  rpc, stream, bufw, bufwErr, wire,
  \* a panic ends the process
  crashed,
  \* history
  dials, calls, lostConn, deq, issuedIn, answeredBy, gAttempt

ampVars == <<mu, closed, state, stateListeners, conn, err, reqcCloses>>
loopVars == <<loopPC, req, lconn, lerr, gAttempt>>
callVars == <<pc, op, raw, res, calls, issuedIn, answeredBy>>
connVars == <<rpc, stream, bufw, bufwErr, wire, lostConn, deq>>
vars == <<mu, closed, state, stateListeners, conn, err, reqcCloses,
          newPC, loopPC, req, lconn, lerr,
          pc, op, raw, res, cpc, cres, rpc, stream, bufw, bufwErr, wire,
          crashed, dials, calls, lostConn, deq, issuedIn, answeredBy,
          gAttempt>>

\* ------------------------------------------------------------------ Init
\* The Amp literal of New: every guarded field has its zero value.
Init ==
  /\ mu = "free" /\ closed = FALSE /\ state = unconnected
  /\ stateListeners = <<>> /\ conn = 0 /\ err = Nil
  /\ reqcCloses = 0
  /\ newPC = "start" /\ loopPC = "none" /\ req = NoReq
  /\ lconn = 0 /\ lerr = Nil
  /\ pc = [c \in Callers |-> "idle"]
  /\ op = [c \in Callers |-> "none"]
  /\ raw = [c \in Callers |-> <<>>]
  /\ res = [c \in Callers |-> NoResult]
  /\ cpc = [k \in Attempts |-> "none"]
  /\ cres = [k \in Attempts |-> NoResult]
  /\ rpc = [k \in Attempts |-> "none"]
  /\ stream = [k \in Attempts |-> "none"]
  /\ bufw = [k \in Attempts |-> <<>>]
  /\ bufwErr = [k \in Attempts |-> FALSE]
  /\ wire = [k \in Attempts |-> <<>>]
  /\ crashed = FALSE
  /\ dials = 0 /\ calls = 0 /\ lostConn = {} /\ deq = <<>>
  /\ issuedIn = [c \in Callers |-> 0]
  /\ answeredBy = [c \in Callers |-> 0]
  /\ gAttempt = 0

\* ---------------------------------------------------------- startConnect
\* startConnect without the test of a.state: it starts an attempt whenever
\* the handle is open.
startConnectGuard_NoStateCheck == ~closed

\* startConnect that returns early only while an attempt is in flight.
startConnectGuard_NotConnecting == ~closed /\ state # connecting

\* The negation of the early return of startConnect.
startConnectGuard == ~closed /\ state = unconnected

\* startConnect, the whole critical section.
startConnect ==
  IF startConnectGuard
    THEN /\ state' = connecting
         /\ dials' = dials + 1
         /\ cpc' = [cpc EXCEPT ![dials + 1] = "dial"]
    ELSE UNCHANGED <<state, dials, cpc>>

\* startConnect can take mu (and the model has an attempt left to start).
canStartConnect == mu = "free" /\ (startConnectGuard => dials < MaxDials)

\* New: startConnect, then go a.loop().
New ==
  /\ ~crashed /\ newPC = "start"
  /\ canStartConnect /\ startConnect
  /\ newPC' = "done" /\ loopPC' = "select"
  /\ UNCHANGED <<mu, closed, stateListeners, conn, err, reqcCloses,
                 req, lconn, lerr, gAttempt, cres, crashed>>
  /\ UNCHANGED callVars /\ UNCHANGED connVars

\* ------------------------------------------------------------------ calls
\* Ping up to its send on reqc: startConnect.
Ping(c) ==
  /\ ~crashed /\ newPC = "done" /\ pc[c] = "idle" /\ calls < MaxCalls
  /\ canStartConnect /\ startConnect
  /\ pc' = [pc EXCEPT ![c] = "enq"]
  /\ op' = [op EXCEPT ![c] = pingCmd]
  /\ raw' = [raw EXCEPT ![c] = <<>>]
  /\ res' = [res EXCEPT ![c] = NoResult]
  /\ calls' = calls + 1
  /\ issuedIn' = [issuedIn EXCEPT ![c] = IF state' = connecting THEN dials' ELSE 0]
  /\ answeredBy' = [answeredBy EXCEPT ![c] = 0]
  /\ UNCHANGED <<mu, closed, stateListeners, conn, err, reqcCloses,
                 newPC, cres, crashed>>
  /\ UNCHANGED loopVars /\ UNCHANGED connVars

\* SendCommand up to its send on reqc: startConnect.
SendCommand(c, cmd) ==
  /\ ~crashed /\ newPC = "done" /\ pc[c] = "idle" /\ calls < MaxCalls
  /\ canStartConnect /\ startConnect
  /\ pc' = [pc EXCEPT ![c] = "enq"]
  /\ op' = [op EXCEPT ![c] = rawCmd]
  /\ raw' = [raw EXCEPT ![c] = cmd]
  /\ res' = [res EXCEPT ![c] = NoResult]
  /\ calls' = calls + 1
  /\ issuedIn' = [issuedIn EXCEPT ![c] = IF state' = connecting THEN dials' ELSE 0]
  /\ answeredBy' = [answeredBy EXCEPT ![c] = 0]
  /\ UNCHANGED <<mu, closed, stateListeners, conn, err, reqcCloses,
                 newPC, cres, crashed>>
  /\ UNCHANGED loopVars /\ UNCHANGED connVars

\* a.reqc <- request{...} on a closed channel panics.
SendOnClosed(c) ==
  /\ ~crashed /\ pc[c] = "enq" /\ reqcCloses > 0
  /\ pc' = [pc EXCEPT ![c] = "panic"]
  /\ crashed' = TRUE
  /\ UNCHANGED <<op, raw, res, calls, issuedIn, answeredBy, newPC, cpc, cres, dials>>
  /\ UNCHANGED ampVars /\ UNCHANGED loopVars /\ UNCHANGED connVars

\* A goroutine calls Close and goes for mu.
CallClose(c) ==
  /\ ~crashed /\ newPC = "done" /\ pc[c] = "idle" /\ calls < MaxCalls
  /\ pc' = [pc EXCEPT ![c] = "close"]
  /\ op' = [op EXCEPT ![c] = "close"]
  /\ raw' = [raw EXCEPT ![c] = <<>>]
  /\ res' = [res EXCEPT ![c] = NoResult]
  /\ calls' = calls + 1
  /\ issuedIn' = [issuedIn EXCEPT ![c] = 0]
  /\ answeredBy' = [answeredBy EXCEPT ![c] = 0]
  /\ UNCHANGED <<newPC, cpc, cres, dials, crashed>>
  /\ UNCHANGED ampVars /\ UNCHANGED loopVars /\ UNCHANGED connVars

\* Close without its early return.
closeAlready_Never == FALSE

\* The early return of Close.
closeAlready == closed

\* Close, the whole critical section.
Close(c) ==
  /\ ~crashed /\ pc[c] = "close" /\ mu = "free"
  /\ IF closeAlready
       THEN UNCHANGED <<closed, reqcCloses, stream>>
       ELSE /\ closed' = TRUE
            /\ reqcCloses' = reqcCloses + 1
            /\ stream' = IF conn # 0 THEN [stream EXCEPT ![conn] = "closed"]
                                     ELSE stream
  /\ pc' = [pc EXCEPT ![c] = "idle"]
  /\ res' = [res EXCEPT ![c] = Nil]
  /\ UNCHANGED <<mu, state, stateListeners, conn, err, op, raw, calls,
                 issuedIn, answeredBy, newPC, cpc, cres, dials, crashed,
                 rpc, bufw, bufwErr, wire, lostConn, deq>>
  /\ UNCHANGED loopVars

\* ------------------------------------------------------------------- loop
\* case req, ok := <-a.reqc with ok: the caller's send and handleRequest's switch.
LoopRecvReq(c) ==
  /\ ~crashed /\ loopPC = "select" /\ pc[c] = "enq" /\ reqcCloses = 0
  /\ pc' = [pc EXCEPT ![c] = "wait"]
  /\ req' = [c |-> c, cmd |-> op[c], raw |-> raw[c]]
  /\ loopPC' = IF op[c] = pingCmd THEN "ping_rd" ELSE "raw_rd"
  /\ raw' = [raw EXCEPT ![c] = <<>>]
  /\ deq' = IF op[c] = rawCmd THEN Append(deq, [raw |-> raw[c], k |-> 0]) ELSE deq
  /\ UNCHANGED <<lconn, lerr, gAttempt, op, res, calls, issuedIn,
                 answeredBy, newPC, cpc, cres, dials, crashed,
                 rpc, stream, bufw, bufwErr, wire, lostConn>>
  /\ UNCHANGED ampVars

\* case req, ok := <-a.reqc with !ok: return.
LoopRecvClosed ==
  /\ ~crashed /\ loopPC = "select" /\ reqcCloses > 0
  /\ loopPC' = "exited"
  /\ UNCHANGED <<req, lconn, lerr, gAttempt, newPC, cpc, cres, dials, crashed>>
  /\ UNCHANGED ampVars /\ UNCHANGED callVars /\ UNCHANGED connVars

\* case ampl := <-a.ampc: the reader's send; the line is logged.
LoopRecvLine(k) ==
  /\ ~crashed /\ loopPC = "select" /\ rpc[k] = "sendLine"
  /\ rpc' = [rpc EXCEPT ![k] = "read"]
  /\ UNCHANGED <<stream, bufw, bufwErr, wire, lostConn, deq,
                 newPC, cpc, cres, dials, crashed>>
  /\ UNCHANGED ampVars /\ UNCHANGED callVars /\ UNCHANGED loopVars

\* case <-a.connerrc: the reader's send, after which the reader returns.
LoopRecvConnErr(k) ==
  /\ ~crashed /\ loopPC = "select" /\ rpc[k] = "sendErr"
  /\ rpc' = [rpc EXCEPT ![k] = "done"]
  /\ lostConn' = lostConn \cup {k}
  /\ loopPC' = "loss_sc"
  /\ UNCHANGED <<req, lconn, lerr, gAttempt, stream, bufw, bufwErr, wire,
                 deq, newPC, cpc, cres, dials, crashed>>
  /\ UNCHANGED ampVars /\ UNCHANGED callVars

\* a.startConnect() of case <-a.connerrc.
LoopLossStartConnect ==
  /\ ~crashed /\ loopPC = "loss_sc"
  /\ canStartConnect /\ startConnect
  /\ loopPC' = "select"
  /\ UNCHANGED <<mu, closed, stateListeners, conn, err, reqcCloses,
                 req, lconn, lerr, gAttempt, newPC, cres, crashed>>
  /\ UNCHANGED callVars /\ UNCHANGED connVars

\* The loop sends response{err: e} on req.ch and the caller's <-ch takes it.
reply(e) ==
  /\ pc[req.c] = "wait"
  /\ pc' = [pc EXCEPT ![req.c] = "idle"]
  /\ res' = [res EXCEPT ![req.c] = e]
  /\ UNCHANGED <<op, raw, calls, issuedIn>>

\* ------------------------------------------------------------- handlePing
\* st := a.state under mu.
HandlePingRead ==
  /\ ~crashed /\ loopPC = "ping_rd" /\ mu = "free"
  /\ gAttempt' = conn
  /\ loopPC' = IF state = connected THEN "ping_reply1" ELSE "ping_sc"
  /\ UNCHANGED <<req, lconn, lerr, newPC, cpc, cres, dials, crashed>>
  /\ UNCHANGED ampVars /\ UNCHANGED callVars /\ UNCHANGED connVars

\* if st == connected { req.ch <- &response{err: nil} }
HandlePingReplyConnected ==
  /\ ~crashed /\ loopPC = "ping_reply1"
  /\ reply(Nil)
  /\ answeredBy' = [answeredBy EXCEPT ![req.c] = gAttempt]
  /\ loopPC' = "ping_sc"
  /\ UNCHANGED <<req, lconn, lerr, gAttempt, newPC, cpc, cres, dials, crashed>>
  /\ UNCHANGED ampVars /\ UNCHANGED connVars

\* a.startConnect() of handlePing.
HandlePingStartConnect ==
  /\ ~crashed /\ loopPC = "ping_sc"
  /\ canStartConnect /\ startConnect
  /\ loopPC' = "ping_asl"
  /\ UNCHANGED <<mu, closed, stateListeners, conn, err, reqcCloses,
                 req, lconn, lerr, gAttempt, newPC, cres, crashed>>
  /\ UNCHANGED callVars /\ UNCHANGED connVars

\* addStateListener that appends the channel whatever the state.
addStateListenerAppends_Always == TRUE

\* addStateListener appends the channel only while connecting.
addStateListenerAppends == state = connecting

\* addStateListener(ch): append and unlock, or reach ch <- a.err with mu held.
\* ch is unbuffered and its only receiver is this goroutine's <-ch in
\* handlePing, so that send has no partner: "asl_send" has no step.
AddStateListener ==
  /\ ~crashed /\ loopPC = "ping_asl" /\ mu = "free"
  /\ IF addStateListenerAppends
       THEN /\ stateListeners' = Append(stateListeners, req.c)
            /\ loopPC' = "ping_wait"
            /\ mu' = mu
       ELSE /\ stateListeners' = stateListeners
            /\ loopPC' = "asl_send"
            /\ mu' = "loop"
  /\ UNCHANGED <<closed, state, conn, err, reqcCloses,
                 req, lconn, lerr, gAttempt, newPC, cpc, cres, dials, crashed>>
  /\ UNCHANGED callVars /\ UNCHANGED connVars

\* req.ch <- &response{err: <-ch}, after <-ch returned lerr.
HandlePingReply ==
  /\ ~crashed /\ loopPC = "ping_reply2"
  /\ reply(lerr)
  /\ answeredBy' = [answeredBy EXCEPT ![req.c] = gAttempt]
  /\ loopPC' = "select"
  /\ req' = NoReq /\ lerr' = Nil /\ gAttempt' = 0
  /\ UNCHANGED <<lconn, newPC, cpc, cres, dials, crashed>>
  /\ UNCHANGED ampVars /\ UNCHANGED connVars

\* -------------------------------------------------------------- handleRaw
\* strings.HasSuffix(s, "\r")
HasSuffixCR(s) == Len(s) > 0 /\ s[Len(s)] = CR

\* Framing that adds the delimiter without looking at the payload's end.
Frame_AlwaysAppends(s) == Append(s, CR)

\* raw := req.raw; if !strings.HasSuffix(raw, "\r") { raw += "\r" }
Frame(s) == IF HasSuffixCR(s) THEN s ELSE Append(s, CR)

\* WriteString of the payload as it came, no delimiter added.
bufwAfterWrite_NoDelimiter(b, s) == b \o s

\* The writer's buffer after conn.bufw.WriteString(raw), raw framed.
bufwAfterWrite(b, s) == b \o Frame(s)

\* st := a.state; conn := a.conn under mu, and the test st != connected.
HandleRawRead ==
  /\ ~crashed /\ loopPC = "raw_rd" /\ mu = "free"
  /\ lconn' = conn
  /\ loopPC' = IF state # connected THEN "raw_nc" ELSE "raw_write"
  /\ deq' = IF state = connected
              THEN [deq EXCEPT ![Len(deq)] = [raw |-> req.raw, k |-> conn]]
              ELSE deq
  /\ UNCHANGED <<req, lerr, gAttempt, newPC, cpc, cres, dials, crashed,
                 rpc, stream, bufw, bufwErr, wire, lostConn>>
  /\ UNCHANGED ampVars /\ UNCHANGED callVars

\* req.ch <- &response{err: errors.New("not connected")}; return
HandleRawNotConnected ==
  /\ ~crashed /\ loopPC = "raw_nc"
  /\ reply(NotConnected)
  /\ loopPC' = "select"
  /\ req' = NoReq /\ lconn' = 0
  /\ UNCHANGED <<answeredBy, lerr, gAttempt, newPC, cpc, cres, dials, crashed>>
  /\ UNCHANGED ampVars /\ UNCHANGED connVars

\* conn.bufw.WriteString(raw): the bytes go to the writer's buffer, unless an
\* earlier write failed (the writer's error is sticky).  A nil conn panics.
HandleRawWrite ==
  /\ ~crashed /\ loopPC = "raw_write"
  /\ IF lconn = 0
       THEN /\ crashed' = TRUE
            /\ loopPC' = "panic"
            /\ bufw' = bufw
       ELSE /\ crashed' = crashed
            /\ loopPC' = "raw_flush"
            /\ bufw' = IF bufwErr[lconn] THEN bufw
                       ELSE [bufw EXCEPT ![lconn] = bufwAfterWrite(@, req.raw)]
  /\ UNCHANGED <<req, lconn, lerr, gAttempt, newPC, cpc, cres, dials,
                 rpc, stream, bufwErr, wire, lostConn, deq>>
  /\ UNCHANGED ampVars /\ UNCHANGED callVars

\* conn.bufw.Flush(): the buffer goes to the stream in one Write.  The write
\* fails on a stream closed by Close, and may fail or not on a stream whose
\* peer is gone; its error is ignored.
HandleRawFlush(fails) ==
  /\ ~crashed /\ loopPC = "raw_flush"
  /\ fails = TRUE => stream[lconn] # "open"
  /\ fails = FALSE => stream[lconn] # "closed"
  /\ IF bufwErr[lconn] \/ fails
       THEN /\ bufwErr' = [bufwErr EXCEPT ![lconn] = TRUE]
            /\ UNCHANGED <<wire, bufw>>
       ELSE /\ wire' = [wire EXCEPT ![lconn] = @ \o bufw[lconn]]
            /\ bufw' = [bufw EXCEPT ![lconn] = <<>>]
            /\ bufwErr' = bufwErr
  /\ loopPC' = "raw_reply"
  /\ UNCHANGED <<req, lconn, lerr, gAttempt, newPC, cpc, cres, dials, crashed,
                 rpc, stream, lostConn, deq>>
  /\ UNCHANGED ampVars /\ UNCHANGED callVars

\* req.ch <- &response{err: nil}
HandleRawReply ==
  /\ ~crashed /\ loopPC = "raw_reply"
  /\ reply(Nil)
  /\ loopPC' = "select"
  /\ req' = NoReq /\ lconn' = 0
  /\ UNCHANGED <<answeredBy, lerr, gAttempt, newPC, cpc, cres, dials, crashed>>
  /\ UNCHANGED ampVars /\ UNCHANGED connVars

\* ---------------------------------------------------------------- connect
\* c, err := net.Dial("tcp", a.addr) returns.
Dial(k, ok) ==
  /\ ~crashed /\ cpc[k] = "dial"
  /\ cpc' = [cpc EXCEPT ![k] = "lock"]
  /\ cres' = [cres EXCEPT ![k] = IF ok THEN Nil ELSE DialErr(k)]
  /\ stream' = IF ok THEN [stream EXCEPT ![k] = "open"] ELSE stream
  /\ UNCHANGED <<rpc, bufw, bufwErr, wire, lostConn, deq, newPC, dials, crashed>>
  /\ UNCHANGED ampVars /\ UNCHANGED callVars /\ UNCHANGED loopVars

\* setState that stores unconnected whatever the outcome.
setStateValue_NeverConnected(e) == unconnected

\* The state setState(e) stores.
setStateValue(e) == IF e = Nil THEN connected ELSE unconnected

\* connect that dials again by itself when the attempt failed.
connectFinish_Redial(k) ==
  IF cres[k] # Nil
    THEN /\ cpc' = [cpc EXCEPT ![k] = "dial"]
         /\ UNCHANGED <<conn, rpc>>
    ELSE /\ cpc' = [cpc EXCEPT ![k] = "done"]
         /\ conn' = k
         /\ rpc' = [rpc EXCEPT ![k] = "read"]

\* connect after the listeners are served: a.stateListeners = nil, return on
\* an error, else a.conn = &conn{...}; go a.conn.readFromAmp(); unlock.
connectFinish(k) ==
  /\ cpc' = [cpc EXCEPT ![k] = "done"]
  /\ IF cres[k] # Nil
       THEN UNCHANGED <<conn, rpc>>
       ELSE /\ conn' = k
            /\ rpc' = [rpc EXCEPT ![k] = "read"]

\* connect takes mu; setState stores state and err and goes through the
\* listeners, mu held.
ConnectSetState(k) ==
  /\ ~crashed /\ cpc[k] = "lock" /\ mu = "free"
  /\ state' = setStateValue(cres[k])
  /\ err' = cres[k]
  /\ IF stateListeners = <<>>
       THEN connectFinish(k) /\ mu' = mu
       ELSE /\ cpc' = [cpc EXCEPT ![k] = "notify"]
            /\ mu' = "connect"
            /\ UNCHANGED <<conn, rpc>>
  /\ UNCHANGED <<closed, stateListeners, reqcCloses, cres, newPC, dials, crashed,
                 stream, bufw, bufwErr, wire, lostConn, deq>>
  /\ UNCHANGED callVars /\ UNCHANGED loopVars

\* ch <- err of setState, taken by the <-ch of handlePing; after the last
\* listener connect goes on and unlocks.
ConnectNotify(k) ==
  /\ ~crashed /\ cpc[k] = "notify"
  /\ stateListeners # <<>>
  /\ loopPC = "ping_wait" /\ Head(stateListeners) = req.c
  /\ lerr' = err
  /\ gAttempt' = k
  /\ loopPC' = "ping_reply2"
  /\ stateListeners' = Tail(stateListeners)
  /\ IF Tail(stateListeners) = <<>>
       THEN connectFinish(k) /\ mu' = "free"
       ELSE UNCHANGED <<cpc, conn, rpc, mu>>
  /\ UNCHANGED <<closed, state, err, reqcCloses, req, lconn, cres, newPC,
                 dials, crashed, stream, bufw, bufwErr, wire, lostConn, deq>>
  /\ UNCHANGED callVars

\* ------------------------------------------------------------ readFromAmp
\* c.bufr.ReadSlice('\r') returns a line.
ReadLine(k) ==
  /\ ~crashed /\ rpc[k] = "read" /\ stream[k] = "open"
  /\ rpc' = [rpc EXCEPT ![k] = "sendLine"]
  /\ UNCHANGED <<stream, bufw, bufwErr, wire, lostConn, deq, newPC, cpc, cres,
                 dials, crashed>>
  /\ UNCHANGED ampVars /\ UNCHANGED callVars /\ UNCHANGED loopVars

\* c.bufr.ReadSlice('\r') returns an error: the stream was closed by Close,
\* or the peer is gone.
ReadFail(k) ==
  /\ ~crashed /\ rpc[k] = "read" /\ stream[k] \in {"closed", "broken"}
  /\ rpc' = [rpc EXCEPT ![k] = "sendErr"]
  /\ UNCHANGED <<stream, bufw, bufwErr, wire, lostConn, deq, newPC, cpc,
                 cres, dials, crashed>>
  /\ UNCHANGED ampVars /\ UNCHANGED callVars /\ UNCHANGED loopVars

\* The peer closes the connection, or the network drops it.
PeerGone(k) ==
  /\ ~crashed /\ stream[k] = "open"
  /\ stream' = [stream EXCEPT ![k] = "broken"]
  /\ UNCHANGED <<rpc, bufw, bufwErr, wire, lostConn, deq, newPC, cpc,
                 cres, dials, crashed>>
  /\ UNCHANGED ampVars /\ UNCHANGED callVars /\ UNCHANGED loopVars

\* ------------------------------------------------------------------- Next
Next ==
  \/ New
  \/ \E c \in Callers : Ping(c)
  \/ \E c \in Callers : \E cmd \in RawCmds : SendCommand(c, cmd)
  \/ \E c \in Callers : SendOnClosed(c)
  \/ \E c \in Callers : CallClose(c)
  \/ \E c \in Callers : Close(c)
  \/ \E c \in Callers : LoopRecvReq(c)
  \/ LoopRecvClosed
  \/ \E k \in Attempts : LoopRecvLine(k)
  \/ \E k \in Attempts : LoopRecvConnErr(k)
  \/ LoopLossStartConnect
  \/ HandlePingRead
  \/ HandlePingReplyConnected
  \/ HandlePingStartConnect
  \/ AddStateListener
  \/ HandlePingReply
  \/ HandleRawRead
  \/ HandleRawNotConnected
  \/ HandleRawWrite
  \/ \E f \in BOOLEAN : HandleRawFlush(f)
  \/ HandleRawReply
  \/ \E k \in Attempts : \E ok \in BOOLEAN : Dial(k, ok)
  \/ \E k \in Attempts : ConnectSetState(k)
  \/ \E k \in Attempts : ConnectNotify(k)
  \/ \E k \in Attempts : ReadLine(k)
  \/ \E k \in Attempts : ReadFail(k)
  \/ \E k \in Attempts : PeerGone(k)

Spec == Init /\ [][Next]_vars

\* ================================================================ claims
\* The connect goroutines that have not returned.
InFlight == {k \in Attempts : cpc[k] \in {"dial", "lock", "notify"}}

\* Caller c called Ping and Ping returned.
PingReturned(c) == op[c] = pingCmd /\ pc[c] = "idle" /\ res[c] # NoResult

\* C1: Pings issued while one connection attempt is in flight all get the
\* outcome of that attempt, and that attempt is the only net.Dial behind
\* their answers.
C1_PingsShareAttempt ==
  \A c1 \in Callers : \A c2 \in Callers :
    ( /\ c1 # c2
      /\ PingReturned(c1) /\ PingReturned(c2)
      /\ issuedIn[c1] > 0 /\ issuedIn[c1] = issuedIn[c2] )
    => /\ answeredBy[c1] = issuedIn[c1]
       /\ answeredBy[c2] = issuedIn[c1]
       /\ res[c1] = cres[issuedIn[c1]]
       /\ res[c2] = cres[issuedIn[c1]]

\* C2: at most one connect goroutine is in flight, and an attempt starts only
\* in a step that moves state from unconnected to connecting on an open
\* handle (so none starts while connecting or connected).
C2_OneAttemptInFlight ==
  [][ /\ Cardinality(InFlight') <= 1
      /\ (state' = connecting => Cardinality(InFlight') = 1)
      /\ dials' # dials =>
           /\ dials' = dials + 1
           /\ state = unconnected /\ state' = connecting /\ ~closed
           /\ cpc[dials'] = "none" /\ cpc'[dials'] = "dial" ]_vars

\* C2's case: a call ran startConnect while the first attempt was dialing,
\* and no second attempt was started.
C2_Witness ==
  \E c \in Callers :
    pc[c] = "enq" /\ issuedIn[c] = 1 /\ cpc[1] = "dial" /\ dials = 1

\* C3: once the loop has taken the read failure of the current conn, the
\* open handle is no longer connected on that conn, and no SendCommand is
\* written to a conn whose reader reported a failure.
C3_BrokenConnRetried ==
  /\ \A k \in lostConn :
       (~closed /\ loopPC # "loss_sc") => ~(state = connected /\ conn = k)
  /\ (~closed /\ loopPC \in {"raw_write", "raw_flush"}) => lconn \notin lostConn

\* C4: a SendCommand waiting to hand its request to the loop while the state
\* is unconnected or connecting never finds the loop parked in handlePing on
\* the outcome of the attempt.
C4_SendCommandNotBlocked ==
  \A c \in Callers :
    ( /\ pc[c] = "enq" /\ op[c] = rawCmd /\ reqcCloses = 0
      /\ state \in {unconnected, connecting} )
    => loopPC # "ping_wait"

\* The payloads the loop dequeued and found connected on conn k, in the
\* order it dequeued them.
DequeuedFor(k) ==
  LET onK(e) == e.k = k IN SelectSeq(deq, onK)

RECURSIVE FrameAll(_)
\* The bytes of the commands of q, each payload followed by its delimiter.
FrameAll(q) ==
  IF q = <<>> THEN <<>>
  ELSE (IF Head(q).raw # <<>> /\ Head(q).raw[Len(Head(q).raw)] = CR
          THEN Head(q).raw ELSE Head(q).raw \o <<CR>>) \o FrameAll(Tail(q))

\* The loop is between dequeuing a command for conn k and the end of its Flush.
Writing(k) == loopPC \in {"raw_write", "raw_flush"} /\ lconn = k

\* C5: the bytes on a stream are the commands the loop dequeued for it, whole
\* and in dequeue order: all of them but the one being written while no write
\* has failed, a prefix of them after a failed write; and bytes wait in a
\* writer's buffer only while the loop is in handleRaw on that conn.
C5_WritesSerialized ==
  \A k \in Attempts :
    LET q == DequeuedFor(k)
        done == IF Writing(k) THEN Len(q) - 1 ELSE Len(q)
    IN /\ ~bufwErr[k] => wire[k] = FrameAll(SubSeq(q, 1, done))
       /\ \E n \in 0..done : wire[k] = FrameAll(SubSeq(q, 1, n))
       /\ (bufw[k] # <<>> /\ ~bufwErr[k]) => (loopPC = "raw_flush" /\ lconn = k)

\* C5's case: two commands of two callers are on the stream.
C5_Witness ==
  \E k \in Attempts :
    /\ Len(DequeuedFor(k)) = 2
    /\ DequeuedFor(k)[1].raw # DequeuedFor(k)[2].raw
    /\ wire[k] = FrameAll(DequeuedFor(k))
    /\ \A c \in Callers : op[c] = rawCmd /\ pc[c] = "idle" /\ res[c] = Nil

\* C6: state starts unconnected and changes only unconnected -> connecting,
\* connecting -> connected, connecting -> unconnected.
C6_Transitions ==
  /\ state = unconnected
  /\ [][ state' # state =>
           <<state, state'>> \in { <<unconnected, connecting>>,
                                   <<connecting, connected>>,
                                   <<connecting, unconnected>> } ]_vars

\* C6's case: all three transitions have been taken.
C6_Witness ==
  dials = 2 /\ cres[1] = DialErr(1) /\ cpc[1] = "done" /\ state = connected

\* C7: closed never goes back to false, close(a.reqc) runs at most once and
\* exactly when closed is set, and a Close that finds closed set returns nil
\* and changes no field of the handle and no stream.
C7_CloseIdempotent ==
  [][ /\ closed => closed'
      /\ reqcCloses' <= 1
      /\ closed' <=> reqcCloses' = 1
      /\ \A c \in Callers :
           (pc[c] = "close" /\ pc'[c] = "idle" /\ closed) =>
             /\ res'[c] = Nil
             /\ UNCHANGED <<ampVars, stream>> ]_vars

\* C7's case: two calls of Close have returned.
C7_Witness ==
  /\ closed
  /\ \A c \in Callers : op[c] = "close" /\ pc[c] = "idle" /\ res[c] = Nil

\* C8: no call sends its request on the closed request channel (which
\* panics).
C8_NoSendOnClosed ==
  \A c \in Callers : pc[c] # "panic"

C10_LateWaiterServed ==
  loopPC # "asl_send"

\* C11: mu is never held by a goroutine blocked on a channel send that has no
\* receiver ready: connect holds it in setState only while the loop waits on
\* the listener, and the loop never holds it at a send.
C11_LockNotHeldBlocked ==
  /\ mu = "connect" => (loopPC = "ping_wait" /\ stateListeners # <<>>)
  /\ mu # "loop"

\* C12: the reply channel of the request the loop holds gets its one
\* Response: the loop is never stuck for good in addStateListener while the
\* caller of that request still waits for the first Response.
C12_ReplyExactlyOnce ==
  (req # NoReq /\ loopPC = "asl_send") => pc[req.c] # "wait"

\* C13: the bytes handleRaw hands to the writer for a command are the payload
\* unchanged when it ends in a carriage return, and the payload followed by
\* one carriage return otherwise.
C13_OneDelimiter ==
  (loopPC = "raw_flush" /\ ~bufwErr[lconn]) =>
    LET p == req.raw
        b == bufw[lconn]
    IN IF Len(p) > 0 /\ p[Len(p)] = CR
         THEN b = p
         ELSE /\ Len(b) = Len(p) + 1
              /\ SubSeq(b, 1, Len(p)) = p
              /\ b[Len(b)] = CR

\* C13's case: a payload that already ends in the delimiter has been written
\* and flushed to the stream.
C13_Witness ==
  /\ loopPC = "raw_reply" /\ req.raw = <<"Z", CR>>
  /\ wire[lconn] = <<"Z", CR>>

\* C14: seen under mu, stateListeners is non-empty only while state is
\* connecting; a listener leaves the collection only by being sent the
\* outcome of the attempt that is leaving connecting, one send per listener,
\* and connect unlocks only with the collection empty.
C14_ListenersDrained ==
  [][ /\ (mu' = "free" /\ stateListeners' # <<>>) => state' = connecting
      /\ stateListeners' # stateListeners =>
           \/ /\ stateListeners' = Append(stateListeners, req.c)
              /\ state = connecting /\ mu = "free"
           \/ /\ stateListeners # <<>>
              /\ stateListeners' = Tail(stateListeners)
              /\ mu = "connect"
              /\ \E k \in Attempts : cpc[k] = "notify" /\ lerr' = cres[k]
              /\ Head(stateListeners) = req.c
              /\ loopPC = "ping_wait" /\ loopPC' = "ping_reply2"
      /\ (mu = "connect" /\ mu' = "free") => stateListeners' = <<>> ]_vars

\* C14's case: a registered listener has just been sent the outcome of the
\* attempt and the collection is empty again.
C14_Witness ==
  /\ loopPC = "ping_reply2" /\ stateListeners = <<>> /\ mu = "free"
  /\ state # connecting /\ lerr = err

\* C14 as stated: in every state, held lock or not, stateListeners is
\* non-empty only while state is connecting.
C14_ListenersOnlyWhileConnecting ==
  stateListeners # <<>> => state = connecting

\* The conns connect has created (each with its reader goroutine started).
ConnsCreated == {k \in Attempts : rpc[k] # "none"}

\* The reader goroutines that have not returned.
ReadersRunning == {k \in Attempts : rpc[k] \in {"read", "sendLine", "sendErr"}}

\* C15: the handle has at most one conn, a.conn is set exactly when state is
\* connected (seen under mu), and at most one reader goroutine runs, the one
\* of a.conn.
C15_OneConnOneReader ==
  /\ Cardinality(ConnsCreated) <= 1
  /\ mu = "free" => (conn # 0 <=> state = connected)
  /\ conn # 0 => conn \in ConnsCreated
  /\ Cardinality(ReadersRunning) <= 1
  /\ \A k \in ReadersRunning : conn = k

\* C15's case: after a failed first attempt the second one connected, its
\* conn is stored and its reader runs.
C15_Witness ==
  /\ cres[1] = DialErr(1) /\ conn = 2 /\ state = connected /\ mu = "free"
  /\ rpc[2] = "read" /\ stream[2] = "open"

\* C16: a call of Close never waits for mu behind the loop goroutine, and
\* once the handle is closed the loop is never in a place it cannot leave
\* (so that, scheduled fairly, it reaches its return).
C16_CloseReturnsLoopExits ==
  /\ \A c \in Callers : pc[c] = "close" => mu # "loop"
  /\ closed => loopPC # "asl_send"

\* C17: a reader that has a read failure to deliver is never left at its send
\* on connerrc with the loop goroutine gone: it delivers and returns.
C17_ReaderFinishes ==
  \A k \in Attempts :
    (rpc[k] = "sendErr" /\ \A c \in Callers : pc[c] = "idle") => loopPC # "exited"

\* The step is one of the demands that may start an attempt: New, the
\* startConnect of a Ping or SendCommand call, the startConnect of the loop
\* for a ping request or for a loss signal.
DemandStep ==
  \/ newPC = "start" /\ newPC' = "done"
  \/ \E c \in Callers : pc[c] = "idle" /\ pc'[c] = "enq"
  \/ loopPC = "ping_sc" /\ loopPC' = "ping_asl"
  \/ loopPC = "loss_sc" /\ loopPC' = "select"

\* C18: a net.Dial starts only in a demand step; in every other step an
\* unconnected handle stays unconnected and the number of attempts stays.
C18_RetryOnDemandOnly ==
  [][ ~DemandStep =>
        /\ dials' = dials
        /\ state = unconnected => state' = unconnected
        /\ \A k \in Attempts : cpc'[k] = "dial" => cpc[k] = "dial" ]_vars

\* C18's case: the attempt failed and nothing is going on: the handle stays
\* unconnected with its one attempt.
C18_Witness ==
  /\ cres[1] = DialErr(1) /\ cpc[1] = "done" /\ dials = 1
  /\ state = unconnected /\ ~closed /\ loopPC = "select"
  /\ \E c \in Callers : PingReturned(c) /\ res[c] = DialErr(1)

C20_NoStreamLeftOpen ==
  (closed /\ InFlight = {} /\ \A c \in Callers : pc[c] = "idle") =>
    \A k \in Attempts : stream[k] \in {"none", "closed"}

====
